---- MODULE Spec2Model ----
(***************************************************************************)
(* Model of the agent-matrix/catalog synchronisation pipeline:             *)
(*   scripts/sync_mcp_servers.py        the sync run, harvest to servers   *)
(*   scripts/validate_catalog_index.py  the index validator                *)
(*                                                                         *)
(* Strings are sequences of one-character strings, so that the text        *)
(* conversions of the code (strip, lower, upper, slugging, splitting,      *)
(* path joining, relative_to, sorted) are computed and not assumed.        *)
(***************************************************************************)
EXTENDS Integers, Sequences, FiniteSets, TLC

(***************************************************************************)
(* Characters and Python's str primitives                                  *)
(***************************************************************************)

Lowers == <<"a","b","c","d","e","f","g","h","i","j","k","l","m",
            "n","o","p","q","r","s","t","u","v","w","x","y","z">>

Uppers == <<"A","B","C","D","E","F","G","H","I","J","K","L","M",
            "N","O","P","Q","R","S","T","U","V","W","X","Y","Z">>

Digits == <<"0","1","2","3","4","5","6","7","8","9">>

\* The characters of the model in code-point order (Python compares str by
\* code point): ' ' 32, '-' 45, '.' 46, '/' 47, '0'-'9', ':' 58, 'A'-'Z',
\* '\' 92, '_' 95, 'a'-'z'.
Charset == <<" ", "-", ".", "/">> \o Digits \o <<":">> \o Uppers
             \o <<"\\", "_">> \o Lowers

Range(s) == { s[i] : i \in 1..Len(s) }

IndexIn(c, tbl) == CHOOSE i \in 1..Len(tbl) : tbl[i] = c

Chars == Range(Charset)

LowerSet == Range(Lowers)

UpperSet == Range(Uppers)

DigitSet == Range(Digits)

\* Code-point order of the characters.
Ord == [c \in Chars |-> IndexIn(c, Charset)]

\* str.lower() and str.upper(), per character.
ToLower == [c \in Chars |-> IF c \in UpperSet THEN Lowers[IndexIn(c, Uppers)] ELSE c]

ToUpper == [c \in Chars |-> IF c \in LowerSet THEN Uppers[IndexIn(c, Lowers)] ELSE c]

StrLower(s) == [i \in 1..Len(s) |-> ToLower[s[i]]]

StrUpper(s) == [i \in 1..Len(s) |-> ToUpper[s[i]]]

RECURSIVE LStripCh(_, _)
LStripCh(s, chars) ==
    IF s # <<>> /\ Head(s) \in chars THEN LStripCh(Tail(s), chars) ELSE s

RECURSIVE RStripCh(_, _)
RStripCh(s, chars) ==
    IF s # <<>> /\ s[Len(s)] \in chars
    THEN RStripCh(SubSeq(s, 1, Len(s) - 1), chars)
    ELSE s

StripCh(s, chars) == RStripCh(LStripCh(s, chars), chars)

Whitespace == {" "}

StrStrip(s) == StripCh(s, Whitespace)

StartsWith(s, pre) ==
    Len(pre) <= Len(s) /\ SubSeq(s, 1, Len(pre)) = pre

EndsWith(s, suf) ==
    Len(suf) <= Len(s) /\ SubSeq(s, Len(s) - Len(suf) + 1, Len(s)) = suf

\* Position of the first occurrence of sub in s, 0 when there is none.
FindSub(s, sub) ==
    LET hits == { i \in 1..(Len(s) - Len(sub) + 1) :
                    SubSeq(s, i, i + Len(sub) - 1) = sub }
    IN  IF hits = {} THEN 0
        ELSE CHOOSE i \in hits : \A j \in hits : i <= j

Contains(s, sub) == FindSub(s, sub) # 0

RECURSIVE ReplaceCh(_, _, _)
ReplaceCh(s, c, rep) ==
    IF s = <<>> THEN <<>>
    ELSE (IF Head(s) = c THEN rep ELSE <<Head(s)>>) \o ReplaceCh(Tail(s), c, rep)

\* Python's a < b on str.
RECURSIVE StrLess(_, _)
StrLess(a, b) ==
    IF a = <<>> THEN b # <<>>
    ELSE IF b = <<>> THEN FALSE
    ELSE IF Head(a) = Head(b) THEN StrLess(Tail(a), Tail(b))
    ELSE Ord[Head(a)] < Ord[Head(b)]

\* sorted(set(xs)) for a list of str.
RECURSIVE SortSet(_)
SortSet(S) ==
    IF S = {} THEN <<>>
    ELSE LET m == CHOOSE x \in S : \A y \in S : x = y \/ StrLess(x, y)
         IN  <<m>> \o SortSet(S \ {m})

SortedSet(xs) == SortSet(Range(xs))

(***************************************************************************)
(* String literals of the program                                          *)
(***************************************************************************)

S_slash       == <<"/">>
S_dot         == <<".">>
S_dunder      == <<"_","_">>
S_unknown     == <<"u","n","k","n","o","w","n">>
S_UNKNOWN     == <<"U","N","K","N","O","W","N">>
S_unknown2    == S_unknown \o S_slash \o S_unknown
S_github      == <<"g","i","t","h","u","b",".","c","o","m","/">>
S_dotgit      == <<".","g","i","t">>
S_servers     == <<"s","e","r","v","e","r","s">>
S_manifest    == <<"m","a","n","i","f","e","s","t",".","j","s","o","n">>
S_index       == <<"i","n","d","e","x",".","j","s","o","n">>
S_provenance  == <<"p","r","o","v","e","n","a","n","c","e",".","j","s","o","n">>
S_http        == <<"h","t","t","p",":","/","/">>
S_https       == <<"h","t","t","p","s",":","/","/">>
S_dots        == <<".",".",".">>
S_dotslash    == <<".","/">>

(***************************************************************************)
(* Small utilities (sync_mcp_servers.py)                                   *)
(***************************************************************************)

norm_repo_full(repo_url) ==
    LET s1 == RStripCh(StrStrip(repo_url), {"/"})
        k  == FindSub(s1, S_github)
        s2 == IF k # 0 THEN SubSeq(s1, k + Len(S_github), Len(s1)) ELSE s1
        s3 == IF EndsWith(s2, S_dotgit) THEN SubSeq(s2, 1, Len(s2) - 4) ELSE s2
    IN  StripCh(s3, {"/"})

\* [a-z0-9]
IsSlugChar(c) == c \in LowerSet \/ c \in DigitSet

NonSlugChars == Chars \ (LowerSet \cup DigitSet)

\* re.sub(r"[^a-z0-9]+", "-", s): every maximal run of other characters
\* becomes one '-'.
RECURSIVE SlugRuns(_)
SlugRuns(s) ==
    IF s = <<>> THEN <<>>
    ELSE IF IsSlugChar(Head(s)) THEN <<Head(s)>> \o SlugRuns(Tail(s))
    ELSE <<"-">> \o SlugRuns(LStripCh(Tail(s), NonSlugChars))

safe_slug(s) ==
    LET t == StripCh(SlugRuns(StrLower(s)), {"-"})
    IN  IF t = <<>> THEN S_unknown ELSE t

subpath_to_variant(repo, subpath) ==
    LET sp0 == StrStrip(LStripCh(subpath, {"/"}))
        sp1 == IF sp0 = <<>> THEN S_dot ELSE sp0
        sp2 == ReplaceCh(sp1, "\\", S_slash)
        sp3 == ReplaceCh(sp2, "/", S_dunder)
    IN  repo \o S_dunder \o sp3

\* pathlib's a / b for a relative b.
PathJoin(a, b) == a \o S_slash \o b

\* Path.relative_to(base), as a str.
RelativeTo(p, base) == SubSeq(p, Len(base) + 2, Len(p))

\* (repo_full.split("/", 1) + ["unknown"])[:2]
SplitOwnerRepo(repo_full) ==
    LET k == FindSub(repo_full, S_slash)
    IN  IF k = 0 THEN <<repo_full, S_unknown>>
        ELSE <<SubSeq(repo_full, 1, k - 1), SubSeq(repo_full, k + 1, Len(repo_full))>>

build_group_dir(servers_dir, repo_full) ==
    LET parts == SplitOwnerRepo(repo_full)
    IN  PathJoin(servers_dir, safe_slug(parts[1]) \o <<"-">> \o safe_slug(parts[2]))

build_variant_dir(group_dir, repo_full, subpath) ==
    LET parts == SplitOwnerRepo(repo_full)
    IN  PathJoin(group_dir, subpath_to_variant(safe_slug(parts[2]), subpath))

(***************************************************************************)
(* Manifests                                                               *)
(*                                                                         *)
(* A manifest document is a record:                                        *)
(*   type       "mcp_server" or another tag                                *)
(*   id         the declared id as a str; <<>> stands for absent, null     *)
(*              and "" alike (the code reads it as manifest.get("id") or "")*)
(*   repo_url   provenance.repo_url, <<>> when there is none               *)
(*   subpath    provenance.subpath, <<>> when there is none                *)
(*   transport  mcp_registration.server.transport as written               *)
(*   lifecycle  status: "none" when the key is absent; deprecated_at,      *)
(*              reason, reactivated_at: whether the field is present       *)
(*   harvest    seen: "unset", "true", "false"; last_seen_at: present      *)
(***************************************************************************)

NoLifecycle ==
    [status |-> "none", deprecated_at |-> FALSE, reason |-> FALSE,
     reactivated_at |-> FALSE]

NoHarvest == [seen |-> "unset", last_seen_at |-> FALSE]

Manifest(type, id, repo_url, subpath, transport, status) ==
    [type |-> type, id |-> id, repo_url |-> repo_url, subpath |-> subpath,
     transport |-> transport,
     lifecycle |-> [NoLifecycle EXCEPT !.status = status],
     harvest |-> NoHarvest]

CatalogKey(repo_full, subpath, transport) ==
    [repo_full |-> repo_full, subpath |-> subpath, transport |-> transport]

\* Returns <<repo_full, subpath>>.
extract_source_repo_path(m) ==
    <<IF m.repo_url # <<>> THEN norm_repo_full(m.repo_url) ELSE S_unknown2,
      LStripCh(m.subpath, {"/"})>>

extract_transport(m) ==
    LET t == StrStrip(StrUpper(m.transport))
    IN  IF t = <<>> THEN S_UNKNOWN ELSE t

KeyOf(m) ==
    LET rs == extract_source_repo_path(m)
    IN  CatalogKey(rs[1], rs[2], extract_transport(m))

mark_active_seen(m) ==
    LET lc1 == IF m.lifecycle.status = "deprecated"
               THEN [m.lifecycle EXCEPT !.status = "active", !.reactivated_at = TRUE]
               ELSE m.lifecycle
        lc2 == IF lc1.status = "none" THEN [lc1 EXCEPT !.status = "active"] ELSE lc1
    IN  [m EXCEPT !.lifecycle = lc2,
                  !.harvest = [seen |-> "true", last_seen_at |-> TRUE]]

mark_deprecated(m) ==
    LET lc1 == IF m.lifecycle.status # "disabled"
               THEN [m.lifecycle EXCEPT !.status = "deprecated"]
               ELSE m.lifecycle
        lc2 == [lc1 EXCEPT !.deprecated_at = TRUE, !.reason = TRUE]
    IN  [m EXCEPT !.lifecycle = lc2,
                  !.harvest = [seen |-> "false", last_seen_at |-> TRUE]]

\* (manifest.get("lifecycle") or {}).get("status", "active")
StatusOf(m) == IF m.lifecycle.status = "none" THEN "active" ELSE m.lifecycle.status

(***************************************************************************)
(* The file system                                                         *)
(*                                                                         *)
(* fs maps an absolute path (a str) to the document stored there:          *)
(*   [kind |-> "manifest",   doc |-> a manifest]                           *)
(*   [kind |-> "provenance", doc |-> the provenance object]                *)
(*   [kind |-> "index",      doc |-> the list under "manifests"]           *)
(*   [kind |-> "top",        doc |-> the top-level index]                  *)
(***************************************************************************)

\* Path(args.catalog_root).resolve()
catalog_root == <<"/", "c">>

\* (catalog_root / args.servers_dir).resolve(), with the default "servers"
servers_dir == PathJoin(catalog_root, S_servers)

\* (catalog_root / args.index_file).resolve(), with the default "index.json"
index_file == PathJoin(catalog_root, S_index)

File(kind, doc) == [kind |-> kind, doc |-> doc]

\* write_json(path, obj): creates or replaces the file.
write_json(f, path, file) ==
    [p \in (DOMAIN f) \cup {path} |-> IF p = path THEN file ELSE f[p]]

\* servers_dir.glob("**/manifest.json")
iter_existing_manifests(f) ==
    { p \in DOMAIN f : StartsWith(p, servers_dir \o S_slash)
                       /\ EndsWith(p, S_slash \o S_manifest) }

\* Whether read_json(p) returns an object (a file that does not parse raises).
Parses(f, p) == f[p].kind = "manifest"

\* The paths load_existing_by_key keeps: parseable, of type mcp_server.
ExistingPaths(f) ==
    { p \in iter_existing_manifests(f) :
        Parses(f, p) /\ f[p].doc.type = "mcp_server" }

\* Dict[CatalogKey, Path]. Were two files to hold one key, the dict would keep
\* the one the glob yields last; the sync run never produces two such files.
load_existing_by_key(f) ==
    LET ps == ExistingPaths(f)
        ks == { KeyOf(f[p].doc) : p \in ps }
    IN  [k \in ks |-> CHOOSE p \in ps : KeyOf(f[p].doc) = k]

(***************************************************************************)
(* The harvest: what mcp_ingest's harvest_source leaves under .tmp/harvest *)
(*                                                                         *)
(* A harvested entry is [resolves, doc]: whether resolve_manifest_path     *)
(* finds the file, and the manifest document read from it.                 *)
(***************************************************************************)

Entry(resolves, doc) == [resolves |-> resolves, doc |-> doc]

R_aw      == <<"a", "/", "w">>
R_aw_url  == S_github \o R_aw \o S_slash
T_sse     == <<"S", "S", "E">>
T_ws      == <<"w", "s">>

\* The manifests a harvest can yield, chosen so that the cases of the code
\* occur: two variants of one repository, two transports of one variant (one
\* destination path, two keys, one declared id), a blank id, manifests that
\* already carry a lifecycle status, a foreign type, an unresolvable path.
HarvestPool ==
    { Entry(TRUE,  Manifest("mcp_server", <<"x">>, R_aw, <<>>, T_sse, "none")),
      Entry(TRUE,  Manifest("mcp_server", <<"y", " ">>, R_aw_url, <<"/", "s">>, T_sse, "deprecated")),
      Entry(TRUE,  Manifest("mcp_server", <<"x">>, R_aw, <<>>, T_ws, "none")),
      Entry(TRUE,  Manifest("mcp_server", <<" ">>, R_aw, <<"s">>, T_sse, "none")),
      Entry(TRUE,  Manifest("mcp_server", <<"z">>, R_aw, <<>>, T_ws, "disabled")),
      Entry(TRUE,  Manifest("tool", <<"t">>, R_aw, <<>>, T_sse, "none")),
      Entry(FALSE, Manifest("mcp_server", <<"u">>, R_aw, <<>>, T_sse, "none")) }

\* Total number of manifests harvested over all runs of a behaviour.
MaxHarvested == 4

RECURSIVE SeqsUpTo(_, _)
SeqsUpTo(S, n) ==
    IF n = 0 THEN {<<>>}
    ELSE LET shorter == SeqsUpTo(S, n - 1)
         IN  shorter \cup { Append(q, x) : q \in { r \in shorter : Len(r) = n - 1 }, x \in S }

(***************************************************************************)
(* State                                                                   *)
(***************************************************************************)

VARIABLES
    fs,                        \* the catalog tree on disk
    pc,                        \* "idle", "harvest", "deprecate", "group", "done", "aborted"
    manifest_paths,            \* the harvested list of this run
    pos,                       \* position of the for loop over manifest_paths
    existing_by_key,           \* Dict[CatalogKey, Path], loaded before the harvest
    seen_keys,                 \* set[CatalogKey]
    id_to_key,                 \* Dict[str, CatalogKey]
    top_items,                 \* List[Dict]
    active_manifest_relpaths,  \* List[str]
    group_to_relpaths,         \* Dict[Path, List[str]]
    deprecated_added,          \* int
    exit_error,                \* the SystemExit raised, kind "none" when none
    pre_fs,                    \* history: fs when the run started
    last_harvest,              \* history: the set of manifests the latest run harvested, {} once it aborted
    same_as_prev,              \* history: the run before this one completed, with the same harvested set
    harvested,                 \* history: manifests harvested so far, over all runs
    v_pc,                      \* validate_catalog_index: "off", "start", "manifests", "items", "exited"
    v_m,                       \* entries of `manifests` the first loop has gone through
    v_i,                       \* entries of `items` the second loop has gone through
    errors,                    \* int
    diagnostics,               \* the lines printed to stderr, the final tally apart
    exit_code                  \* the exit status, -1 while the process runs

syncvars == <<fs, pc, manifest_paths, pos, existing_by_key, seen_keys, id_to_key,
              top_items, active_manifest_relpaths, group_to_relpaths,
              deprecated_added, exit_error, pre_fs, last_harvest, same_as_prev,
              harvested>>

valvars == <<v_pc, v_m, v_i, errors, diagnostics, exit_code>>

NoKey == CatalogKey(<<>>, <<>>, <<>>)

Error(kind, id, key1, key2) ==
    [kind |-> kind, id |-> id, key1 |-> key1, key2 |-> key2]

NoError == Error("none", <<>>, NoKey, NoKey)

EmptyMap == [x \in {} |-> <<>>]

Quiet == pc \in {"idle", "done", "aborted"}

(***************************************************************************)
(* main() of sync_mcp_servers.py                                           *)
(***************************************************************************)

Init ==
    /\ fs = EmptyMap
    /\ pc = "idle"
    /\ manifest_paths = <<>>
    /\ pos = 1
    /\ existing_by_key = EmptyMap
    /\ seen_keys = {}
    /\ id_to_key = EmptyMap
    /\ top_items = <<>>
    /\ active_manifest_relpaths = <<>>
    /\ group_to_relpaths = EmptyMap
    /\ deprecated_added = 0
    /\ exit_error = NoError
    /\ pre_fs = EmptyMap
    /\ last_harvest = {}
    /\ same_as_prev = FALSE
    /\ harvested = 0
    /\ v_pc = "off"
    /\ v_m = 0
    /\ v_i = 0
    /\ errors = 0
    /\ diagnostics = <<>>
    /\ exit_code = -1

\* The process ends (normally or by SystemExit): its local variables are gone.
ExitProcess ==
    /\ manifest_paths' = <<>>
    /\ pos' = 1
    /\ existing_by_key' = EmptyMap
    /\ seen_keys' = {}
    /\ id_to_key' = EmptyMap
    /\ top_items' = <<>>
    /\ active_manifest_relpaths' = <<>>
    /\ group_to_relpaths' = EmptyMap
    /\ deprecated_added' = 0

\* The sync run and the index validator are separate invocations.
ValidatorOff == UNCHANGED valvars

\* What a run that is starting records about itself.
RunStarts(list) ==
    /\ Quiet
    /\ ValidatorOff
    /\ pre_fs' = fs
    /\ last_harvest' = Range(list)
    /\ same_as_prev' = (list # <<>> /\ Range(list) = last_harvest)
    /\ harvested' = harvested + Len(list)

\* Lines 247-249: the harvester left no merged index.
HarvestNoIndex ==
    /\ RunStarts(<<>>)
    /\ pc' = "aborted"
    /\ exit_error' = Error("no_index", <<>>, NoKey, NoKey)
    /\ ExitProcess
    /\ UNCHANGED fs

\* Lines 251-254: the merged index lists no manifest.
HarvestEmpty ==
    /\ RunStarts(<<>>)
    /\ pc' = "aborted"
    /\ exit_error' = Error("no_manifests", <<>>, NoKey, NoKey)
    /\ ExitProcess
    /\ UNCHANGED fs

\* Every list the harvester can yield within the bound, by length.
HarvestLists ==
    [n \in 1..MaxHarvested |->
        { l \in SeqsUpTo(HarvestPool, MaxHarvested) : Len(l) = n }]

\* Lines 219-264: the catalog is scanned, the harvester yields a non-empty
\* list, and the loop over it begins.
HarvestManifests ==
    /\ Quiet
    /\ existing_by_key' = load_existing_by_key(fs)
    /\ seen_keys' = {}
    /\ id_to_key' = EmptyMap
    /\ top_items' = <<>>
    /\ active_manifest_relpaths' = <<>>
    /\ group_to_relpaths' = EmptyMap
    /\ deprecated_added' = 0
    /\ pos' = 1
    /\ pc' = "harvest"
    /\ exit_error' = NoError
    /\ \E n \in 1..(MaxHarvested - harvested) :
          \E list \in HarvestLists[n] :
              /\ manifest_paths' = list
              /\ RunStarts(list)
    /\ UNCHANGED fs

\* The loop variable of `for mp in manifest_paths`.
Cur == manifest_paths[pos]

NextPc == IF pos = Len(manifest_paths) THEN "deprecate" ELSE "harvest"

History ==
    /\ UNCHANGED <<pre_fs, last_harvest, same_as_prev, harvested>>
    /\ ValidatorOff

LoopFrame ==
    /\ UNCHANGED <<manifest_paths, existing_by_key, deprecated_added>>
    /\ History

Skip ==
    /\ pos' = pos + 1
    /\ pc' = NextPc
    /\ LoopFrame
    /\ UNCHANGED <<fs, seen_keys, id_to_key, top_items, active_manifest_relpaths,
                   group_to_relpaths, exit_error>>

\* Lines 267-270
SkipUnresolved ==
    /\ pc = "harvest"
    /\ ~Cur.resolves
    /\ Skip

\* Lines 272-274
SkipForeignType ==
    /\ pc = "harvest"
    /\ Cur.resolves
    /\ Cur.doc.type # "mcp_server"
    /\ Skip

Processable == pc = "harvest" /\ Cur.resolves /\ Cur.doc.type = "mcp_server"

\* The id as declared, with its blanks kept.
MidOf_Unstripped(m) == m.id

\* Line 284: mid = str(manifest.get("id") or "").strip()
MidOf(m) == StrStrip(m.id)

\* Line 285: `if not mid`
IdMissing(mid) == mid = <<>>

\* Any id already in the table, whatever key it is bound to.
IdCollides_IgnoringKey(tbl, mid, key) == mid \in DOMAIN tbl

\* Line 289
IdCollides(tbl, mid, key) == mid \in DOMAIN tbl /\ tbl[mid] # key

\* raise SystemExit(...) inside the loop
Abort(err) ==
    /\ pc' = "aborted"
    /\ exit_error' = err
    /\ ExitProcess
    /\ last_harvest' = {}
    /\ ValidatorOff
    /\ UNCHANGED <<fs, pre_fs, same_as_prev, harvested>>

\* Lines 285-287
AbortMissingId ==
    /\ Processable
    /\ IdMissing(MidOf(Cur.doc))
    /\ Abort(Error("missing_id", <<>>, KeyOf(Cur.doc), NoKey))

\* Lines 289-296
AbortCollision ==
    /\ Processable
    /\ ~IdMissing(MidOf(Cur.doc))
    /\ IdCollides(id_to_key, MidOf(Cur.doc), KeyOf(Cur.doc))
    /\ Abort(Error("collision", MidOf(Cur.doc), id_to_key[MidOf(Cur.doc)], KeyOf(Cur.doc)))

\* Lines 300-304
DestManifest(key) ==
    LET group_dir   == build_group_dir(servers_dir, key.repo_full)
        variant_dir == build_variant_dir(group_dir, key.repo_full, key.subpath)
    IN  PathJoin(variant_dir, S_manifest)

\* Lines 308-317: the manifest's own provenance, or a synthesized one.
ProvenanceOf(m, key) ==
    IF m.repo_url # <<>> \/ m.subpath # <<>>
    THEN [repo_url |-> m.repo_url, subpath |-> m.subpath, synthesized |-> FALSE]
    ELSE [repo_url |-> S_https \o S_github \o key.repo_full,
          subpath |-> key.subpath, synthesized |-> TRUE]

\* An entry of top_items (name is not modelled; repo is kept as repo_full).
Item(mid, key, status, rel_manifest) ==
    [type |-> "mcp_server", id |-> mid, transport |-> key.transport,
     status |-> status, manifest_path |-> rel_manifest,
     repo_full |-> key.repo_full, subpath |-> key.subpath]

\* The three files of the variant, and the group-level index along with them.
WriteVariant_AndGroupIndex(f, m, key) ==
    LET dest_manifest == DestManifest(key)
        group_dir     == build_group_dir(servers_dir, key.repo_full)
        variant_dir   == SubSeq(dest_manifest, 1, Len(dest_manifest) - Len(S_manifest) - 1)
        f1 == write_json(f, dest_manifest, File("manifest", m))
        f2 == write_json(f1, PathJoin(variant_dir, S_provenance),
                         File("provenance", ProvenanceOf(m, key)))
        f3 == write_json(f2, PathJoin(variant_dir, S_index),
                         File("index", <<S_dotslash \o S_manifest>>))
    IN  write_json(f3, PathJoin(group_dir, S_index),
                   File("index", <<RelativeTo(dest_manifest, group_dir)>>))

\* Lines 299-320: the three files written for one harvested manifest.
WriteVariant(f, m, key) ==
    LET dest_manifest == DestManifest(key)
        variant_dir   == SubSeq(dest_manifest, 1, Len(dest_manifest) - Len(S_manifest) - 1)
        f1 == write_json(f, dest_manifest, File("manifest", m))
        f2 == write_json(f1, PathJoin(variant_dir, S_provenance),
                         File("provenance", ProvenanceOf(m, key)))
    IN  write_json(f2, PathJoin(variant_dir, S_index),
                   File("index", <<S_dotslash \o S_manifest>>))

\* Line 323
RelManifest(dest_manifest) == RelativeTo(dest_manifest, catalog_root)

\* Line 326: group_to_relpaths.setdefault(group_dir, []).append(rel)
AppendTo(map, k, v) ==
    [x \in (DOMAIN map) \cup {k} |->
        IF x = k THEN (IF k \in DOMAIN map THEN Append(map[k], v) ELSE <<v>>)
        ELSE map[x]]

\* Lines 276-347: one harvested manifest is written and recorded.
WriteManifest ==
    /\ Processable
    /\ LET key      == KeyOf(Cur.doc)
           manifest == mark_active_seen(Cur.doc)
           mid      == MidOf(manifest)
           group_dir     == build_group_dir(servers_dir, key.repo_full)
           dest_manifest == DestManifest(key)
           rel_manifest  == RelManifest(dest_manifest)
           status        == StatusOf(manifest)
       IN  /\ ~IdMissing(mid)
           /\ ~IdCollides(id_to_key, mid, key)
           /\ id_to_key' = [x \in (DOMAIN id_to_key) \cup {mid} |->
                               IF x = mid THEN key ELSE id_to_key[x]]
           /\ fs' = WriteVariant(fs, manifest, key)
           /\ group_to_relpaths' =
                  AppendTo(group_to_relpaths, group_dir, RelativeTo(dest_manifest, group_dir))
           /\ seen_keys' = seen_keys \cup {key}
           /\ top_items' = Append(top_items, Item(mid, key, status, rel_manifest))
           /\ active_manifest_relpaths' =
                  IF status = "active"
                  THEN Append(active_manifest_relpaths, rel_manifest)
                  ELSE active_manifest_relpaths
    /\ pos' = pos + 1
    /\ pc' = NextPc
    /\ LoopFrame
    /\ UNCHANGED exit_error

\* Lines 351-359: the pre-run keys not seen in this run whose file, as it is
\* now, parses and has type mcp_server.
DeprecationPaths ==
    { existing_by_key[k] : k \in { x \in (DOMAIN existing_by_key) \ seen_keys :
          /\ existing_by_key[x] \in DOMAIN fs
          /\ Parses(fs, existing_by_key[x])
          /\ fs[existing_by_key[x]].doc.type = "mcp_server" } }

\* Lines 365-382: the audit entry of a deprecated file, from the file's content.
DeprecatedItem(f, mf_path) ==
    LET m == f[mf_path].doc
    IN  Item(MidOf(m), KeyOf(m), "deprecated", RelManifest(mf_path))

RECURSIVE ItemsOf(_, _)
ItemsOf(f, paths) ==
    IF paths = <<>> THEN <<>>
    ELSE <<DeprecatedItem(f, Head(paths))>> \o ItemsOf(f, Tail(paths))

\* Lines 349-382: every pre-run key not seen in this run is marked deprecated
\* in place. The keys of existing_by_key have distinct paths, so the order of
\* the dict does not change the files; the items are appended in path order.
DeprecateMissing ==
    /\ pc = "deprecate"
    /\ LET targets == DeprecationPaths
       IN  /\ fs' = [p \in DOMAIN fs |->
                        IF p \in targets
                        THEN File("manifest", mark_deprecated(fs[p].doc))
                        ELSE fs[p]]
           /\ deprecated_added' = Cardinality(targets)
           /\ top_items' = top_items \o ItemsOf(fs', SortSet(targets))
    /\ pc' = "group"
    /\ History
    /\ UNCHANGED <<manifest_paths, pos, existing_by_key, seen_keys, id_to_key,
                   active_manifest_relpaths, group_to_relpaths, exit_error>>

\* Line 387
GroupIndexDoc(relpaths) == SortedSet(relpaths)

RECURSIVE WriteGroups(_, _, _)
WriteGroups(f, map, dirs) ==
    IF dirs = {} THEN f
    ELSE LET g == CHOOSE d \in dirs : TRUE
         IN  WriteGroups(write_json(f, PathJoin(g, S_index),
                                    File("index", GroupIndexDoc(map[g]))),
                         map, dirs \ {g})

\* Line 391: the sort key (id, manifest_path), compared as a tuple of str.
ItemLess(a, b) ==
    \/ StrLess(a.id, b.id)
    \/ a.id = b.id /\ StrLess(a.manifest_path, b.manifest_path)

\* list.sort is stable: x goes after the elements that are not greater.
InsertItem(sorted, x) ==
    LET n == Cardinality({ i \in 1..Len(sorted) : ~ItemLess(x, sorted[i]) })
    IN  SubSeq(sorted, 1, n) \o <<x>> \o SubSeq(sorted, n + 1, Len(sorted))

RECURSIVE SortItems(_)
SortItems(items) ==
    IF items = <<>> THEN <<>>
    ELSE InsertItem(SortItems(SubSeq(items, 1, Len(items) - 1)), items[Len(items)])

\* The list in the order the loop appended it.
ActiveManifestsDoc_Unsorted(relpaths) == relpaths

\* Line 392
ActiveManifestsDoc(relpaths) == SortedSet(relpaths)

\* Lines 394-409 (generated_at and source are not modelled)
TopIndex(items, manifests, n_deprecated) ==
    [counts |-> [total_items |-> Len(items),
                 active_manifests |-> Len(manifests),
                 deprecated_added_this_run |-> n_deprecated],
     items |-> items,
     manifests |-> manifests]

\* Lines 384-411: the group-level indexes, then the top-level index; the
\* process then ends.
WriteIndexes ==
    /\ pc = "group"
    /\ fs' = write_json(WriteGroups(fs, group_to_relpaths, DOMAIN group_to_relpaths),
                        index_file,
                        File("top", TopIndex(SortItems(top_items),
                                             ActiveManifestsDoc(active_manifest_relpaths),
                                             deprecated_added)))
    /\ pc' = "done"
    /\ ExitProcess
    /\ History
    /\ UNCHANGED exit_error

\* Between runs an operator may set a manifest's lifecycle.status to
\* "disabled" by hand; line 144 is where the sync run honours that status.
OperatorDisable ==
    /\ Quiet
    /\ \E p \in ExistingPaths(fs) :
          /\ fs[p].doc.lifecycle.status # "disabled"
          /\ fs' = [fs EXCEPT ![p].doc.lifecycle.status = "disabled"]
    /\ pc' = "idle"
    /\ History
    /\ UNCHANGED <<manifest_paths, pos, existing_by_key, seen_keys, id_to_key,
                   top_items, active_manifest_relpaths, group_to_relpaths,
                   deprecated_added, exit_error>>

Next ==
    \/ HarvestNoIndex
    \/ HarvestEmpty
    \/ HarvestManifests
    \/ SkipUnresolved
    \/ SkipForeignType
    \/ AbortMissingId
    \/ AbortCollision
    \/ WriteManifest
    \/ DeprecateMissing
    \/ WriteIndexes
    \/ OperatorDisable

vars == <<syncvars, valvars>>

Spec == Init /\ [][Next]_vars

(***************************************************************************)
(* main() of validate_catalog_index.py                                     *)
(*                                                                         *)
(* A JSON value read from index.json is [t, s, xs]: t is "str", "int",     *)
(* "null" or "list"; s is the text of a str or an int; xs the elements of  *)
(* a list. An element of `items` is [t, manifest_path]: t is "object" or   *)
(* the type of a value that is no object; manifest_path is JNull when the  *)
(* key is absent.                                                          *)
(*                                                                         *)
(* Besides manifests, a file of the tree may hold text that is not JSON    *)
(* (kind "garbage") or a JSON array (kind "array").                        *)
(***************************************************************************)

J(t, s, xs) == [t |-> t, s |-> s, xs |-> xs]

JStr(s) == J("str", s, <<>>)

JInt(s) == J("int", s, <<>>)

JNull == J("null", <<>>, <<>>)

JList(xs) == J("list", <<>>, xs)

JItem(t, manifest_path) == [t |-> t, manifest_path |-> manifest_path]

\* Python's truth value of a JSON value.
Truthy(j) ==
    CASE j.t = "null" -> FALSE
      [] j.t = "str"  -> j.s # <<>>
      [] j.t = "int"  -> j.s # <<"0">>
      [] j.t = "list" -> j.xs # <<>>

\* Line 20: root = Path("."), the validator being run in the catalog root.
root == catalog_root

\* Line 46: root / rel. Joining an absolute path yields that path.
RootJoin(rel) == IF StartsWith(rel, S_slash) THEN rel ELSE PathJoin(root, rel)

\* Line 22
idx == fs[index_file].doc

\* Line 26: manifests = idx.get("manifests") or []
manifests == IF Truthy(idx.manifests) THEN idx.manifests ELSE JList(<<>>)

\* Line 69: items = idx.get("items") or []
items == IF Truthy(idx.items) THEN idx.items ELSE JList(<<>>)

Diag(check, rel) == [check |-> check, rel |-> rel]

\* Line 59 onwards calls m.get: an AttributeError when the file holds valid
\* JSON that is no object; nothing catches it.
ManifestRaises(f, j) ==
    /\ j.t = "str"
    /\ ~StartsWith(j.s, S_http)
    /\ ~StartsWith(j.s, S_https)
    /\ ~Contains(j.s, S_dots)
    /\ RootJoin(j.s) \in DOMAIN f
    /\ f[RootJoin(j.s)].kind = "array"

\* Lines 33-66: what one pass of the first loop prints.
CheckManifest(f, j) ==
    IF j.t # "str" THEN <<Diag("not_a_string", j)>>
    ELSE IF StartsWith(j.s, S_http) \/ StartsWith(j.s, S_https)
    THEN <<Diag("url", j)>>
    ELSE IF Contains(j.s, S_dots) THEN <<Diag("dots", j)>>
    ELSE IF RootJoin(j.s) \notin DOMAIN f THEN <<Diag("not_on_disk", j)>>
    ELSE IF f[RootJoin(j.s)].kind # "manifest" THEN <<Diag("invalid_json", j)>>
    ELSE LET m == f[RootJoin(j.s)].doc
         IN  (IF m.type # "mcp_server" THEN <<Diag("type", j)>> ELSE <<>>)
             \o (IF StatusOf(m) # "active" THEN <<Diag("non_active", j)>> ELSE <<>>)

\* Lines 72-83: what one pass of the second loop prints.
CheckItem(f, it) ==
    LET rel == it.manifest_path
    IN  IF ~Truthy(rel) \/ rel.t # "str" THEN <<Diag("item_missing_path", rel)>>
        ELSE IF Contains(rel.s, S_dots) THEN <<Diag("item_dots", rel)>>
        ELSE IF RootJoin(rel.s) \notin DOMAIN f THEN <<Diag("item_not_on_disk", rel)>>
        ELSE <<>>

\* The files the validator may find in the tree.
P_active   == <<"a">>
P_deprec   == <<"d">>
P_tool     == <<"t">>
P_garbage  == <<"g">>
P_array    == <<"l">>
P_absent   == <<"n">>

ValidatorTree ==
    LET at(name) == PathJoin(root, name)
    IN  (at(P_active)  :> File("manifest", Manifest("mcp_server", <<"x">>, R_aw, <<>>, T_sse, "active")))
     @@ (at(P_deprec)  :> File("manifest", Manifest("mcp_server", <<"y">>, R_aw, <<"s">>, T_sse, "deprecated")))
     @@ (at(P_tool)    :> File("manifest", Manifest("tool", <<"t">>, R_aw, <<"t">>, T_sse, "disabled")))
     @@ (at(P_garbage) :> File("garbage", <<>>))
     @@ (at(P_array)   :> File("array", <<>>))

\* The entries index.json may list under `manifests`.
ManifestEntryPool ==
    { JStr(P_active), JStr(P_deprec), JStr(P_tool), JStr(P_garbage), JStr(P_array),
      JStr(P_absent), JStr(PathJoin(root, P_active)),
      JStr(S_http \o <<"h">>), JStr(S_https \o <<"h">>),
      JStr(S_dots \o S_slash \o P_active), JInt(<<"7">>) }

\* The entries index.json may list under `items`.
ItemPool ==
    { JItem("object", JStr(P_active)), JItem("object", JStr(P_absent)),
      JItem("object", JNull), JItem("object", JInt(<<"7">>)),
      JItem("object", JStr(S_dots \o S_slash \o P_active)),
      JItem("int", JNull) }

\* The longest `manifests` list of an index.json under validation.
MaxEntries == 2

\* The longest `items` list of an index.json under validation.
MaxItems == 2

\* What index.json may hold under `manifests`: a list, or a value that is none.
ManifestsValues ==
    { JList(l) : l \in SeqsUpTo(ManifestEntryPool, MaxEntries) }
        \cup { JNull, JStr(P_active) }

ItemsValues == { JList(l) : l \in SeqsUpTo(ItemPool, MaxItems) }

SyncIdle ==
    /\ pc = "idle"
    /\ manifest_paths = <<>>
    /\ pos = 1
    /\ existing_by_key = EmptyMap
    /\ seen_keys = {}
    /\ id_to_key = EmptyMap
    /\ top_items = <<>>
    /\ active_manifest_relpaths = <<>>
    /\ group_to_relpaths = EmptyMap
    /\ deprecated_added = 0
    /\ exit_error = NoError
    /\ pre_fs = EmptyMap
    /\ last_harvest = {}
    /\ same_as_prev = FALSE
    /\ harvested = 0

\* The validator is started on a tree whose index.json holds any of the
\* documents above.
InitV ==
    /\ SyncIdle
    /\ \E mv \in ManifestsValues : \E iv \in ItemsValues :
          fs = (index_file :> File("top", [manifests |-> mv, items |-> iv]))
                   @@ ValidatorTree
    /\ v_pc = "start"
    /\ v_m = 0
    /\ v_i = 0
    /\ errors = 0
    /\ diagnostics = <<>>
    /\ exit_code = -1

\* The validator only reads the tree.
ReadOnly == UNCHANGED syncvars

\* Lines 26-27: `manifests` is a list (or was replaced by one).
VBegin ==
    /\ v_pc = "start"
    /\ manifests.t = "list"
    /\ v_pc' = "manifests"
    /\ UNCHANGED <<v_m, v_i, errors, diagnostics, exit_code>>
    /\ ReadOnly

\* Lines 27-29: sys.exit(1) at once.
VExitNotList ==
    /\ v_pc = "start"
    /\ manifests.t # "list"
    /\ diagnostics' = Append(diagnostics, Diag("manifests_not_a_list", JNull))
    /\ exit_code' = 1
    /\ v_pc' = "exited"
    /\ UNCHANGED <<v_m, v_i, errors>>
    /\ ReadOnly

\* Lines 32-66: one pass of `for rel in manifests`.
VManifestEntry ==
    /\ v_pc = "manifests"
    /\ v_m < Len(manifests.xs)
    /\ LET rel == manifests.xs[v_m + 1]
       IN  /\ ~ManifestRaises(fs, rel)
           /\ diagnostics' = diagnostics \o CheckManifest(fs, rel)
           /\ errors' = errors + Len(CheckManifest(fs, rel))
    /\ v_m' = v_m + 1
    /\ UNCHANGED <<v_pc, v_i, exit_code>>
    /\ ReadOnly

\* Line 59: the uncaught AttributeError ends the process with a traceback
\* and status 1.
VManifestRaises ==
    /\ v_pc = "manifests"
    /\ v_m < Len(manifests.xs)
    /\ ManifestRaises(fs, manifests.xs[v_m + 1])
    /\ diagnostics' = Append(diagnostics, Diag("traceback", manifests.xs[v_m + 1]))
    /\ exit_code' = 1
    /\ v_pc' = "exited"
    /\ UNCHANGED <<v_m, v_i, errors>>
    /\ ReadOnly

\* Lines 69-70: the first loop is over.
VItemsBegin ==
    /\ v_pc = "manifests"
    /\ v_m = Len(manifests.xs)
    /\ v_pc' = "items"
    /\ UNCHANGED <<v_m, v_i, errors, diagnostics, exit_code>>
    /\ ReadOnly

\* Lines 71-83: one pass of `for it in items`.
VItemEntry ==
    /\ v_pc = "items"
    /\ v_i < Len(items.xs)
    /\ LET it == items.xs[v_i + 1]
       IN  /\ it.t = "object"
           /\ diagnostics' = diagnostics \o CheckItem(fs, it)
           /\ errors' = errors + Len(CheckItem(fs, it))
    /\ v_i' = v_i + 1
    /\ UNCHANGED <<v_pc, v_m, exit_code>>
    /\ ReadOnly

\* Line 72: it.get on an element that is no object, uncaught.
VItemRaises ==
    /\ v_pc = "items"
    /\ v_i < Len(items.xs)
    /\ items.xs[v_i + 1].t # "object"
    /\ diagnostics' = Append(diagnostics, Diag("traceback", JNull))
    /\ exit_code' = 1
    /\ v_pc' = "exited"
    /\ UNCHANGED <<v_m, v_i, errors>>
    /\ ReadOnly

\* Lines 85-89
VExit ==
    /\ v_pc = "items"
    /\ v_i = Len(items.xs)
    /\ exit_code' = IF errors # 0 THEN 1 ELSE 0
    /\ v_pc' = "exited"
    /\ UNCHANGED <<v_m, v_i, errors, diagnostics>>
    /\ ReadOnly

NextV ==
    \/ VBegin
    \/ VExitNotList
    \/ VManifestEntry
    \/ VManifestRaises
    \/ VItemsBegin
    \/ VItemEntry
    \/ VItemRaises
    \/ VExit

SpecV == InitV /\ [][NextV]_vars

(***************************************************************************)
(* Vocabulary of the properties                                            *)
(***************************************************************************)

\* The run that just ended completed, and nothing touched the tree since.
Completed == pc = "done"

\* Where the consumer of an index entry finds the file: relative entries are
\* taken from the catalog root, absolute ones as they are.
Resolve(rel) == IF StartsWith(rel, S_slash) THEN rel ELSE PathJoin(catalog_root, rel)

IsRelativePath(rel) ==
    /\ ~StartsWith(rel, S_slash)
    /\ ~StartsWith(rel, S_http)
    /\ ~StartsWith(rel, S_https)

IsManifestFile(f, p) == p \in DOMAIN f /\ f[p].kind = "manifest"

\* The entries of the latest harvest that the loop does not skip.
Processed == { e \in last_harvest : e.resolves /\ e.doc.type = "mcp_server" }

HarvestedKeys == { KeyOf(e.doc) : e \in last_harvest }

ProcessedKeys == { KeyOf(e.doc) : e \in Processed }

\* The manifests that were on disk, parseable and of type mcp_server, when the
\* run started.
PriorPaths == ExistingPaths(pre_fs)

(***************************************************************************)
(* C1                                                                      *)
(***************************************************************************)

\* C1: after a completed run every entry of the top-level index's `manifests`
\* list is a relative path, and the manifest file stored at that path at the
\* end of the run has lifecycle status active.
C1_ManifestsListActiveOnly ==
    Completed =>
        \A i \in 1..Len(fs[index_file].doc.manifests) :
            LET rel == fs[index_file].doc.manifests[i]
            IN  /\ IsRelativePath(rel)
                /\ IsManifestFile(fs, Resolve(rel))
                /\ StatusOf(fs[Resolve(rel)].doc) = "active"

(***************************************************************************)
(* C2                                                                      *)
(***************************************************************************)

\* C2: after a completed run, every manifest that was on disk before the run
\* and whose Identity Key was not harvested still has its file at the same
\* path, with status deprecated (unless it was disabled before the run), a
\* reason, a deprecation timestamp and seen_in_latest_run false; and no file
\* of the tree was deleted.
C2_MissingAreDeprecatedInPlace ==
    Completed =>
        /\ DOMAIN pre_fs \subseteq DOMAIN fs
        /\ \A p \in PriorPaths :
              KeyOf(pre_fs[p].doc) \notin HarvestedKeys =>
                  /\ IsManifestFile(fs, p)
                  /\ \/ pre_fs[p].doc.lifecycle.status = "disabled"
                     \/ fs[p].doc.lifecycle.status = "deprecated"
                  /\ fs[p].doc.lifecycle.reason
                  /\ fs[p].doc.lifecycle.deprecated_at
                  /\ fs[p].doc.harvest.seen = "false"

(***************************************************************************)
(* C3                                                                      *)
(***************************************************************************)

\* C3: after a completed run, every manifest that was deprecated on disk when
\* the run started and whose Identity Key was harvested and processed in the
\* run is active on disk and carries lifecycle.reactivated_at.
C3_ReappearedAreReactivated ==
    Completed =>
        \A p \in PriorPaths :
            (/\ pre_fs[p].doc.lifecycle.status = "deprecated"
             /\ KeyOf(pre_fs[p].doc) \in ProcessedKeys)
            => /\ IsManifestFile(fs, p)
               /\ fs[p].doc.lifecycle.status = "active"
               /\ fs[p].doc.lifecycle.reactivated_at

(***************************************************************************)
(* C4                                                                      *)
(***************************************************************************)

\* C4: a manifest whose status on disk is disabled when a run starts is not
\* active on disk at any later point of the run, whether or not its Identity
\* Key is harvested.
C4_DisabledIsSticky ==
    ~Quiet =>
        \A p \in PriorPaths :
            pre_fs[p].doc.lifecycle.status = "disabled"
            => ~(IsManifestFile(fs, p) /\ StatusOf(fs[p].doc) = "active")

(***************************************************************************)
(* C5                                                                      *)
(***************************************************************************)

\* The entries before the loop position that were written (not skipped).
WrittenBefore ==
    { j \in 1..(pos - 1) :
        manifest_paths[j].resolves /\ manifest_paths[j].doc.type = "mcp_server" }

\* A str with the blanks at both ends removed, found by search rather than by
\* stripping: the longest slice of s that neither starts nor ends with a blank.
Trimmed(s) ==
    LET cand == { <<a, b>> \in (1..Len(s)) \X (1..Len(s)) :
                    a <= b /\ s[a] \notin Whitespace /\ s[b] \notin Whitespace }
    IN  IF cand = {} THEN <<>>
        ELSE LET lo == CHOOSE a \in { c[1] : c \in cand } : \A c \in cand : a <= c[1]
                 hi == CHOOSE b \in { c[2] : c \in cand } : \A c \in cand : c[2] <= b
             IN  SubSeq(s, lo, hi)

\* The keys under which the current manifest's id was written earlier in
\* this run.
EarlierKeysOfId ==
    { KeyOf(manifest_paths[j].doc) :
        j \in { i \in WrittenBefore :
                  Trimmed(manifest_paths[i].doc.id) = Trimmed(Cur.doc.id) } }

CollisionExpected ==
    /\ Processable
    /\ Trimmed(Cur.doc.id) # <<>>
    /\ \E k \in EarlierKeysOfId : k # KeyOf(Cur.doc)

C5_Step ==
    /\ pc = "harvest" =>
          /\ (pc' = "aborted" /\ exit_error'.kind = "collision") <=> CollisionExpected
          /\ CollisionExpected =>
                /\ exit_error'.id = Trimmed(Cur.doc.id)
                /\ exit_error'.key1 \in EarlierKeysOfId
                /\ exit_error'.key1 # exit_error'.key2
                /\ exit_error'.key2 = KeyOf(Cur.doc)
          /\ (/\ Processable
              /\ EarlierKeysOfId = {KeyOf(Cur.doc)})
             => (pc' # "aborted" /\ pos' = pos + 1)
    /\ pc # "harvest" =>
          (exit_error'.kind = "collision" => exit_error' = exit_error)

\* C5: a run aborts with an identifier-collision error exactly when the
\* manifest being processed declares an id that was written earlier in the
\* same run under a different Identity Key; the error names the id and both
\* keys; a repeated id under the same key is not an error and the loop goes on.
C5_CollisionExactlyOnConflict == [][C5_Step]_vars

\* A run has aborted on a collision whose error names two different keys.
C5_Witness ==
    /\ pc = "aborted"
    /\ exit_error.kind = "collision"
    /\ exit_error.key1 # exit_error.key2
    /\ exit_error.id # <<>>

(***************************************************************************)
(* C6                                                                      *)
(***************************************************************************)

Blank(s) == \A i \in 1..Len(s) : s[i] \in Whitespace

C6_Step ==
    /\ (Processable /\ Blank(Cur.doc.id)) =>
          /\ pc' = "aborted"
          /\ exit_error'.kind = "missing_id"
          /\ fs' = fs
    /\ pc = "aborted" =>
          \/ fs' = fs
          \/ pc' = "idle"

\* C6: when the manifest being processed has type mcp_server and an id that
\* is missing, empty or blank, the run aborts at that manifest with no file
\* written for it, and the aborted run processes no later manifest: the tree
\* stays as it is until an operator edits it or another run starts.
C6_MissingIdAbortsBeforeWrite == [][C6_Step]_vars

\* A run has aborted on a manifest without an id.
C6_Witness == pc = "aborted" /\ exit_error.kind = "missing_id"

(***************************************************************************)
(* C7                                                                      *)
(***************************************************************************)

IndexPaths(f) == { p \in DOMAIN f : f[p].kind = "index" }

\* C7: when a completed run harvested the same set of manifests as the
\* completed run before it (in whatever order), the top-level `manifests`
\* list, every group-level index and every variant-level index it leaves are
\* identical to those the run before left.
C7_SameHarvestSameIndexes ==
    (Completed /\ same_as_prev) =>
        /\ index_file \in DOMAIN pre_fs
        /\ fs[index_file].doc.manifests = pre_fs[index_file].doc.manifests
        /\ IndexPaths(fs) = IndexPaths(pre_fs)
        /\ \A p \in IndexPaths(fs) : fs[p] = pre_fs[p]

\* Two consecutive completed runs harvested the same set, with two active
\* manifests in two variants of one group.
C7_Witness ==
    /\ Completed
    /\ same_as_prev
    /\ Len(fs[index_file].doc.manifests) >= 2
    /\ \E p \in IndexPaths(fs) : Len(fs[p].doc) >= 2

(***************************************************************************)
(* C8                                                                      *)
(***************************************************************************)

\* The group directories the latest run wrote into.
TouchedGroups ==
    { build_group_dir(servers_dir, KeyOf(e.doc).repo_full) : e \in Processed }

\* The variant manifests that exist under a group directory, relative to it.
VariantsUnder(f, group_dir) ==
    { RelativeTo(p, group_dir) :
        p \in { q \in iter_existing_manifests(f) : StartsWith(q, group_dir \o S_slash) } }

IsSortedNoDup(xs) ==
    \A i \in 1..(Len(xs) - 1) : StrLess(xs[i], xs[i + 1])

\* C8: after a completed run, the group-level index of every group directory
\* the run wrote into lists every variant manifest path that exists under
\* that directory, sorted and without duplicates.
C8_GroupIndexListsAllVariants ==
    Completed =>
        \A g \in TouchedGroups :
            /\ PathJoin(g, S_index) \in DOMAIN fs
            /\ Range(fs[PathJoin(g, S_index)].doc) = VariantsUnder(fs, g)
            /\ IsSortedNoDup(fs[PathJoin(g, S_index)].doc)

(***************************************************************************)
(* C9                                                                      *)
(***************************************************************************)

\* The manifests whose status on disk changed to deprecated during the run.
NewlyDeprecated ==
    { p \in PriorPaths :
        /\ pre_fs[p].doc.lifecycle.status # "deprecated"
        /\ IsManifestFile(fs, p)
        /\ fs[p].doc.lifecycle.status = "deprecated" }

\* C9: in the top-level index a completed run writes,
\* counts.deprecated_added_this_run is the number of entries whose status on
\* disk changed to deprecated during the run.
C9_CountsNewlyDeprecated ==
    Completed =>
        fs[index_file].doc.counts.deprecated_added_this_run
            = Cardinality(NewlyDeprecated)

(***************************************************************************)
(* C10                                                                     *)
(***************************************************************************)

\* The entries index.json lists, as the document holds them.
ListedManifests == IF idx.manifests.t = "list" THEN idx.manifests.xs ELSE <<>>

ListedItems == IF idx.items.t = "list" THEN idx.items.xs ELSE <<>>

\* C10: when the Index Validator has exited, it has gone through every entry
\* of `manifests` and every entry of `items`, it has printed one diagnostic
\* per violation counted, among them one naming each `manifests` entry whose
\* file is not on disk, and its exit status is non-zero exactly when it
\* counted at least one violation.
C10_ValidatorFullPass ==
    v_pc = "exited" =>
        /\ v_m = Len(ListedManifests)
        /\ v_i = Len(ListedItems)
        /\ Len(diagnostics) = errors
        /\ \A k \in 1..Len(ListedManifests) :
              (/\ ListedManifests[k].t = "str"
               /\ IsRelativePath(ListedManifests[k].s)
               /\ ~Contains(ListedManifests[k].s, S_dots)
               /\ RootJoin(ListedManifests[k].s) \notin DOMAIN fs) =>
                  \E d \in 1..Len(diagnostics) :
                      diagnostics[d] = Diag("not_on_disk", ListedManifests[k])
        /\ (exit_code # 0) <=> (errors > 0)

(***************************************************************************)
(* C11                                                                     *)
(***************************************************************************)

\* An entry of `manifests` that is a str but no relative path: it starts
\* with a URL scheme, it is an absolute filesystem path, or it contains
\* the token "...".
NotRelative(j) ==
    /\ j.t = "str"
    /\ \/ ~IsRelativePath(j.s)
       \/ Contains(j.s, S_dots)

\* C11: when the Index Validator has exited and some entry of the top-level
\* `manifests` list is not a relative path (a URL, an absolute filesystem
\* path, or a path containing "..."), its exit status is non-zero, even if
\* the file the entry designates exists and holds a well-formed active
\* manifest.
C11_NonRelativeEntryFails ==
    (v_pc = "exited" /\ \E k \in 1..Len(ListedManifests) : NotRelative(ListedManifests[k]))
        => exit_code # 0

(***************************************************************************)
(* C12                                                                     *)
(***************************************************************************)

\* The three files the loop writes for a harvested manifest of this key.
VariantFiles(key) ==
    LET dest_manifest == DestManifest(key)
        variant_dir   == SubSeq(dest_manifest, 1, Len(dest_manifest) - Len(S_manifest) - 1)
    IN  { dest_manifest, PathJoin(variant_dir, S_provenance), PathJoin(variant_dir, S_index) }

\* The files of the harvested manifests the loop has written so far.
WrittenPaths == UNION { VariantFiles(KeyOf(manifest_paths[j].doc)) : j \in WrittenBefore }

\* servers/<group>/index.json: an index.json one directory below servers.
IsGroupIndex(p) ==
    /\ StartsWith(p, servers_dir \o S_slash)
    /\ EndsWith(p, S_slash \o S_index)
    /\ Cardinality({ i \in 1..Len(RelativeTo(p, servers_dir)) :
                       RelativeTo(p, servers_dir)[i] = "/" }) = 1

\* The paths whose file differs between two trees.
Changed(before, after) ==
    { p \in (DOMAIN before) \cup (DOMAIN after) :
        p \notin DOMAIN before \/ p \notin DOMAIN after \/ before[p] # after[p] }

C12_Step ==
    pc' = "aborted" =>
        LET before  == IF pc = "harvest" THEN pre_fs ELSE fs
            changed == Changed(before, fs')
        IN  /\ fs' = fs
            /\ DOMAIN before \subseteq DOMAIN fs'
            /\ index_file \notin changed
            /\ \A p \in changed : ~IsGroupIndex(p)
            /\ changed \subseteq (IF pc = "harvest" THEN WrittenPaths ELSE {})
            /\ \A p \in ExistingPaths(before) :
                  before[p].doc.lifecycle.status # "deprecated"
                  => /\ IsManifestFile(fs', p)
                     /\ fs'[p].doc.lifecycle.status # "deprecated"

\* C12: when a run aborts fatally (no harvested index, empty manifest list,
\* missing id, id collision), the step that aborts writes nothing, and the
\* tree it leaves differs from the tree before the run only in the manifest,
\* provenance and variant-index files of the harvested manifests processed
\* before the abort: the top-level index and every group-level index are as
\* they were, no file is gone, and no manifest that was on disk has become
\* deprecated.
C12_AbortLeavesIndexesAlone == [][C12_Step]_vars

\* A run aborted partway, after writing into a tree that had a top-level
\* index, a group-level index and an active manifest the run left as it was.
C12_Witness ==
    /\ pc = "aborted"
    /\ exit_error.kind \in {"missing_id", "collision"}
    /\ fs # pre_fs
    /\ index_file \in DOMAIN pre_fs
    /\ \E p \in DOMAIN pre_fs : IsGroupIndex(p)
    /\ \E p \in PriorPaths :
          /\ pre_fs[p] = fs[p]
          /\ pre_fs[p].doc.lifecycle.status = "active"

(***************************************************************************)
(* C13                                                                     *)
(***************************************************************************)

\* The Identity Keys a run in progress deals with: those it has written and
\* those it found on disk when it started.
RunKeys == seen_keys \cup DOMAIN existing_by_key

\* C13: any two different Identity Keys a run deals with, harvested or found
\* on disk, have different destination manifest.json paths, so that neither
\* the write for another harvested key nor the deprecation pass acting for
\* another pre-existing key falls on the file written for a harvested key.
C13_DistinctKeysDistinctPaths ==
    \A k1 \in RunKeys : \A k2 \in RunKeys :
        k1 # k2 => DestManifest(k1) # DestManifest(k2)

====
